---- MODULE Spec2Model ----
(***************************************************************************)
(* GP4U provider agent: the Supervisor (agent.py), the per-job Runner and  *)
(* its watchdog (job_runner.py), the telemetry sender (telemetry.py) and   *)
(* the container engine and control plane they talk to.                    *)
(*                                                                         *)
(* Python strings are sequences of one-character strings; None and the     *)
(* empty string (both falsy) are the empty sequence.                       *)
(***************************************************************************)
EXTENDS Integers, Sequences, FiniteSets, TLC

(* ------------------------------ bounds --------------------------------- *)

\* Runner threads the Supervisor may spawn in one behaviour.
MaxThreads == 2
\* Main-loop iterations of ProviderAgent.run.
MaxTicks == 1
\* Telemetry samples one watchdog may send.
MaxWdTicks == 1
\* Devices discover_gpus returns.
NumGpus == 1
\* Devices discover_gpus returns on the host the startup is checked on.
MaxGpus == 3
\* Telemetry samples the watchdog of a Runner called directly may send.
MaxWdTicksRunner == 2

(* --------------------------- string helpers ---------------------------- *)

Rep(c, n) == [i \in 1..n |-> c]

Min(a, b) == IF a < b THEN a ELSE b

UpperChars == <<"A","B","C","D","E","F","G","H","I","J","K","L","M",
                "N","O","P","Q","R","S","T","U","V","W","X","Y","Z">>

LowerChars == <<"a","b","c","d","e","f","g","h","i","j","k","l","m",
                "n","o","p","q","r","s","t","u","v","w","x","y","z">>

\* str.lower() on one character
LowerChar(c) ==
    IF \E i \in 1..26 : UpperChars[i] = c
    THEN LowerChars[CHOOSE i \in 1..26 : UpperChars[i] = c]
    ELSE c

\* str.lower()
StrLower(s) == [i \in 1..Len(s) |-> LowerChar(s[i])]

WhitespaceChars == {" ", "\t", "\n", "\r"}

\* str.strip(): drop the leading and the trailing whitespace
StrStrip(s) ==
    LET idx == {i \in 1..Len(s) : s[i] \notin WhitespaceChars}
    IN  IF idx = {} THEN <<>>
        ELSE LET lo == CHOOSE i \in idx : \A k \in idx : i <= k
                 hi == CHOOSE i \in idx : \A k \in idx : i >= k
             IN  SubSeq(s, lo, hi)

\* str.startswith(p)
StartsWith(s, p) == Len(s) >= Len(p) /\ SubSeq(s, 1, Len(p)) = p

HexChars == {"0","1","2","3","4","5","6","7","8","9","a","b","c","d","e","f"}

ShaPrefix == <<"s","h","a","2","5","6",":">>

\* number of hex characters of a SHA-256 digest
ShaHexLen == 64

(* ------------------------- JobRunner: the digest ----------------------- *)

\* expected_sha = str(manifest.docker_image_sha256).lower().strip()
ExpectedSha(sha) == StrStrip(StrLower(sha))

DigestWellFormedNoLengthCheck(sha) ==
    LET e == ExpectedSha(sha)
    IN  /\ e # <<>>
        /\ StartsWith(e, ShaPrefix)
        /\ \A i \in (Len(ShaPrefix) + 1)..Len(e) : e[i] \in HexChars

\* the two checks of _pull_and_verify_image that raise RuntimeError
DigestWellFormed(sha) ==
    LET e == ExpectedSha(sha)
        hex_part == SubSeq(e, Len(ShaPrefix) + 1, Len(e))
    IN  /\ e # <<>>
        /\ StartsWith(e, ShaPrefix)
        /\ Len(hex_part) = ShaHexLen
        /\ \A i \in 1..Len(hex_part) : hex_part[i] \in HexChars

\* image_ref = f"{manifest.docker_image}@{expected_sha}"
ImageRef(image, sha) == image \o <<"@">> \o ExpectedSha(sha)

(* ----------------- JobRunner: the docker run command line --------------- *)

\* Characters other than printable ASCII are written as their code point:
\* "U+0000" is NUL, "U+00E9" is e with acute, "U+00B2" is superscript two,
\* "U+0663" is the Arabic-Indic digit three.
DigitChars == <<"0","1","2","3","4","5","6","7","8","9">>

AsciiAlnum ==
    {UpperChars[i] : i \in 1..26} \cup {LowerChars[i] : i \in 1..26}
        \cup {DigitChars[i] : i \in 1..10}

\* str.isalnum() on one character: true of every Unicode letter and number
IsAlnum(c) == c \in AsciiAlnum \cup {"U+00E9", "U+00B2", "U+0663"}

\* clean_key = "".join(c for c in k if c.isalnum() or c == "_")
CleanKey(k) == SelectSeq(k, LAMBDA c : IsAlnum(c) \/ c = "_")

\* the [:4096] of clean_val
MaxEnvValueLen == 4096

\* clean_val = str(v).replace("\x00", "").replace("\n", "").replace("\r", "")[:4096]
CleanVal(v) ==
    LET r == SelectSeq(v, LAMBDA c : c \notin {"U+0000", "\n", "\r"})
    IN  SubSeq(r, 1, Min(Len(r), MaxEnvValueLen))

\* _build_env_args over manifest.env.items(), in the dict's order
RECURSIVE BuildEnvArgs(_)
BuildEnvArgs(env) ==
    IF env = <<>> THEN <<>>
    ELSE (IF CleanKey(Head(env).k) = <<>>
          THEN <<>>
          ELSE <<<<"-","-","e","n","v">>, CleanKey(Head(env).k) \o <<"=">> \o CleanVal(Head(env).v)>>)
         \o BuildEnvArgs(Tail(env))

\* a natural number as its decimal digits, least significant first
RECURSIVE DigitsOf(_)
DigitsOf(n) == IF n < 10 THEN <<n>> ELSE <<n % 10>> \o DigitsOf(n \div 10)

\* twice a number given by its digits (Python integers have no width)
RECURSIVE Doubled(_, _)
Doubled(d, carry) ==
    IF d = <<>> THEN (IF carry = 0 THEN <<>> ELSE <<carry>>)
    ELSE <<(2 * Head(d) + carry) % 10>> \o Doubled(Tail(d), (2 * Head(d) + carry) \div 10)

RECURSIVE TimesPow2(_, _)
TimesPow2(d, n) == IF n = 0 THEN d ELSE TimesPow2(Doubled(d, 0), n - 1)

RECURSIVE Pow2(_)
Pow2(n) == IF n = 0 THEN 1 ELSE 2 * Pow2(n - 1)

\* str() of a natural number given by its digits
DecStr(d) == [i \in 1..Len(d) |-> DigitChars[d[Len(d) + 1 - i] + 1]]

\* str(n)
IntStr(n) == DecStr(DigitsOf(n))

\* ram_bytes = int(ram_limit_gb * 1024 * 1024 * 1024), as digits; the float
\* ram_limit_gb is num / 2^exp, and int() drops the fraction
RamBytes(ram) ==
    IF ram.exp <= 30
    THEN TimesPow2(DigitsOf(ram.num), 30 - ram.exp)
    ELSE DigitsOf(ram.num \div Pow2(ram.exp - 30))

\* "--memory-swap", str(ram_bytes)
MemorySwapUnlimited(ram) == <<"-","1">>

MemorySwapArg(ram) == DecStr(RamBytes(ram))

\* Path(workdir) / "input" and Path(workdir) / "output"
InputDir == <<"/","w","/","i","n","p","u","t">>

OutputDir == <<"/","w","/","o","u","t","p","u","t">>

\* f"gp4u-{job_id[:12]}"
ContainerName(job_id) ==
    <<"g","p","4","u","-">> \o SubSeq(job_id, 1, Min(12, Len(job_id)))

\* cmd of _run_container, one character sequence per argument
DockerRunCmd(m, image_ref) ==
    << <<"d","o","c","k","e","r">>, <<"r","u","n">>, <<"-","-","r","m">>,
       <<"-","-","n","a","m","e">>, ContainerName(m.job_id),
       <<"-","-","g","p","u","s">>, <<"d","e","v","i","c","e","=">> \o IntStr(m.gpu_index),
       <<"-","-","m","e","m","o","r","y">>, DecStr(RamBytes(m.ram)),
       <<"-","-","m","e","m","o","r","y","-","s","w","a","p">>, MemorySwapArg(m.ram),
       <<"-","-","p","i","d","s","-","l","i","m","i","t">>, <<"5","1","2">>,
       <<"-","-","n","e","t","w","o","r","k">>, <<"b","r","i","d","g","e">>,
       <<"-","-","c","a","p","-","d","r","o","p">>, <<"A","L","L">>,
       <<"-","-","s","e","c","u","r","i","t","y","-","o","p","t">>, <<"n","o","-","n","e","w","-","p","r","i","v","i","l","e","g","e","s">>,
       <<"-","-","r","e","a","d","-","o","n","l","y">>,
       <<"-","-","t","m","p","f","s">>, <<"/","t","m","p",":","r","w",",","n","o","e","x","e","c",",","n","o","s","u","i","d",",","s","i","z","e","=","1","g">>,
       <<"-","-","v","o","l","u","m","e">>, InputDir \o <<":","/","i","n","p","u","t",":","r","o">>,
       <<"-","-","v","o","l","u","m","e">>, OutputDir \o <<":","/","o","u","t","p","u","t",":","r","w">> >>
      \o BuildEnvArgs(m.env) \o <<image_ref>> \o m.command

\* manifest defaults of _accept_job
DefaultCommand == <<<<"e","c","h","o">>, <<"h","e","l","l","o">>>>

DefaultEnv == <<>>

DefaultGpuIndex == 0

DefaultRam == [num |-> 32, exp |-> 0]

(* ------------------------------- inputs -------------------------------- *)

\* docker_image values a manifest carries (a mutable tag)
ImageAlpine == <<"a","l","p","i","n","e">>

\* docker_image_sha256 values a manifest may carry
ShaGood == ShaPrefix \o Rep("a", ShaHexLen)

ShaGoodUpperPadded == <<" ">> \o <<"S","H","A","2","5","6",":">>
                        \o Rep("A", ShaHexLen - 1) \o <<"0", "\n">>

ShaShort == ShaPrefix \o Rep("a", ShaHexLen - 1)

ShaLong == ShaPrefix \o Rep("a", ShaHexLen + 1)

ShaBadChar == ShaPrefix \o Rep("a", ShaHexLen - 1) \o <<"g">>

ShaInnerSpace == ShaPrefix \o Rep("a", 32) \o <<" ">> \o Rep("a", 31)

ShaNoPrefix == Rep("a", ShaHexLen)

ShaZZ == ShaPrefix \o <<"z", "z">>

ShaEmpty == <<>>

ShaBlank == <<" ", " ">>

ShaInputs == {ShaGood, ShaGoodUpperPadded, ShaShort, ShaLong, ShaBadChar,
              ShaInnerSpace, ShaNoPrefix, ShaZZ, ShaEmpty, ShaBlank}

\* manifest env maps, as the (key, value) items of the dict in its order
EnvEntry(k, v) == [k |-> k, v |-> v]

EnvKeys == {<<"F","O","O">>, <<"B","A","D"," ","K","E","Y">>, <<>>, <<"-","-">>, <<"C","A","F","U+00E9">>, <<"_","x","1">>}

EnvValues == {<<"b","a","r">> \o <<"\n", "U+0000">> \o <<"b","a","z">>, <<"x","=","y">>, <<>>,
              Rep("a", MaxEnvValueLen), Rep("a", MaxEnvValueLen + 1),
              <<"\r">> \o Rep("b", MaxEnvValueLen) \o <<"\n", "c">>}

EnvInputs ==
    {<<>>} \cup {<<EnvEntry(k, v)>> : k \in EnvKeys, v \in EnvValues}
        \cup {<<EnvEntry(<<"F","O","O">>, <<"b","a","r">> \o <<"\n", "U+0000">> \o <<"b","a","z">>),
                EnvEntry(<<"B","A","D"," ","K","E","Y">>, <<"x">>), EnvEntry(<<>>, <<"y">>)>>,
              <<EnvEntry(<<"A"," ","B">>, <<"1">>), EnvEntry(<<"A","B">>, <<"2">>)>>}

\* manifest gpu_index values
GpuIndexInputs == {0, 7, 10}

\* manifest ram_limit_gb values: 32.0, 0.5, and 3 * 2^-31 (one byte and a half)
RamInputs == {DefaultRam, [num |-> 1, exp |-> 1], [num |-> 3, exp |-> 31]}

\* job ids: 13 characters, so that job_id[:12] is a proper prefix
J1 == Rep("a", 12) \o <<"1">>

J2 == Rep("b", 12) \o <<"1">>

\* a job id that has its first 12 characters in common with J1
J3 == Rep("a", 12) \o <<"2">>

JobIds == {J1, J2, J3}

NoId == <<>>

\* raw assignment dicts of a poll response ("id" and "job_id" may be missing)
Assignment(idv, jidv, sha) == [id |-> idv, job_id |-> jidv, sha |-> sha]

Assignments == {Assignment(J1, NoId, ShaGood), Assignment(J1, NoId, ShaZZ),
                Assignment(NoId, J2, ShaGood), Assignment(NoId, NoId, ShaGood)}

\* assignments in one poll response
MaxPollLen == 2

SeqsUpTo(S, n) == UNION {[1..k -> S] : k \in 0..n}

PollResponses == SeqsUpTo(Assignments, MaxPollLen)

\* --poll values
PollIntervals == {60}

\* --poll values for which the cadence of the heartbeat is followed over
\* MaxCadenceTicks ticks of the main loop
CadenceIntervals == {20, 25, 30, 61}

MaxCadenceTicks == 6

\* exit codes a container ends with by itself
ExitCodes == {0, 1}

\* exit code of a container ended by docker kill (128 + SIGKILL)
KilledCode == 137

\* exit code of docker run when the container name is in use
ConflictCode == 125

(* ----------------------------- the state ------------------------------- *)

VARIABLES
    running,       \* ProviderAgent._running
    supPc,         \* where the Supervisor's main task is
    pollInterval,  \* ProviderAgent.poll_interval
    regLeft,       \* devices register_gpus has still to register
    registered,    \* ProviderAgent._registered_gpu_ids (the devices in it)
    hbCounter,     \* heartbeat_counter of ProviderAgent.run
    ticks,         \* main-loop iterations completed
    jobs,          \* what is left of `for job in jobs`
    active,        \* ProviderAgent._active_jobs, in insertion order
    iter,          \* the dict iterator of the shutdown loop, the thread joined, and
                   \* the threads that were in the map when the main loop ended
    joined,        \* outcome of the shutdown join of each thread
    lastAccept,    \* how the last _accept_job call ended
    nThreads,      \* Runner threads created so far
    thr,           \* per Runner thread: JobRunner fields and both tasks' positions
    container,     \* the container engine: per container name
    obs,           \* per Runner thread: what it did to the engine and control plane
    acks,          \* accept requests sent, per job id
    reqs           \* every kind of HTTP request sent, with its headers

supVars == <<running, supPc, pollInterval, regLeft, registered, hbCounter, ticks,
             jobs, active, iter, joined, lastAccept, nThreads>>

vars == <<running, supPc, pollInterval, regLeft, registered, hbCounter, ticks,
          jobs, active, iter, joined, lastAccept, nThreads,
          thr, container, obs, acks, reqs>>

Threads == 1..MaxThreads

ContainerNames == {ContainerName(j) : j \in JobIds}

Token == "provider-token"

NodeId == "node-uuid4"

HeadersNoNodeId ==
    ("Authorization" :> <<"Bearer", Token>>) @@ ("Content-Type" :> <<"application/json">>)

\* ProviderAgent._headers
Headers ==
    ("Authorization" :> <<"Bearer", Token>>)
        @@ ("Content-Type" :> <<"application/json">>)
        @@ ("X-Node-Id" :> <<NodeId>>)

\* the headers argument of requests.post in TelemetryCollector._send
TelemetryHeaders == ("Content-Type" :> <<"application/json">>)

Request(kind, headers) == [kind |-> kind, headers |-> headers]

\* the process is gone once run() has been left
ProcessAlive == supPc \notin {"returned", "raised", "exit1"}

\* what pynvml gives _collect_gpu: an exception, or a power reading in mW
\* together with the signals _infer_pattern is given: gpu_utilization_pct,
\* outbound_bytes_per_sec, unique_dst_ips, suspicious_destinations
NoSample == [ok |-> FALSE, mw |-> 0,
             util |-> 0, outbound |-> 0, ips |-> 0, suspicious |-> <<>>]

PowerReadings == {0, 150000, 300000}

GpuSamples == {NoSample} \cup {[NoSample EXCEPT !.ok = TRUE, !.mw = mw] : mw \in PowerReadings}

\* _infer_pattern with the thresholds taken inclusively
InferPatternInclusive(gpu_util, outbound, unique_ips, suspicious) ==
    IF suspicious # <<>> THEN "CRYPTO_MINING"
    ELSE IF gpu_util >= 85 /\ outbound <= 5000000 THEN "TRAINING"
    ELSE IF unique_ips >= 30 /\ gpu_util <= 20 THEN "NETWORK_HEAVY"
    ELSE IF gpu_util <= 5 THEN "IDLE"
    ELSE "INFERENCE"

\* TelemetryCollector._infer_pattern
InferPattern(gpu_util, outbound, unique_ips, suspicious) ==
    IF suspicious # <<>> THEN "CRYPTO_MINING"
    ELSE IF gpu_util > 85 /\ outbound < 5000000 THEN "TRAINING"
    ELSE IF unique_ips > 30 /\ gpu_util < 20 THEN "NETWORK_HEAVY"
    ELSE IF gpu_util < 5 THEN "IDLE"
    ELSE "INFERENCE"

\* arguments _infer_pattern is called with directly: around each threshold
UtilInputs == {0, 4, 5, 19, 20, 85, 86, 100}

OutboundInputs == {0, 4999999, 5000000}

IpsInputs == {0, 30, 31}

SuspiciousInputs == {<<>>, <<"10.0.0.1">>}

PatternInputs ==
    {[NoSample EXCEPT !.util = u, !.outbound = o, !.ips = i, !.suspicious = su] :
         u \in UtilInputs, o \in OutboundInputs, i \in IpsInputs, su \in SuspiciousInputs}

\* expected_duration_h in thousandths of an hour: raw.get("expected_duration_h", 1.0)
DefaultDurationMh == 1000

\* expected_duration_h of the manifests run() is called on directly: 0.001 h,
\* 0.025 h, 0.5 h, 1 h
DurationInputs == {1, 25, 500, 1000}

\* int(x) of a float x = num / den: the fraction is cut off, towards zero
IntOf(num, den) == IF num >= 0 THEN num \div den ELSE -((-num) \div den)

\* the smallest whole number >= num / den
CeilOf(num, den) == -((-num) \div den)

\* duration_limit_sec = int(expected_duration_h * 3600 * 1.1), of a duration
\* given in thousandths of an hour: mh / 1000 * 3600 * 11 / 10 = mh * 396 / 100
DurationLimitSec(mh) == IntOf(mh * 396, 100)

\* a Runner, unused or as constructed; nvml tells whether pynvml can sample the
\* Runner's device on this host (the whole agent is run on a host where it
\* cannot, the one for which gpu_discovery falls back to the mock device);
\* energy is _energy_joules in mJ, energy_kwh the result's energy in 1e-6 kWh
UnusedThread ==
    [pc |-> "unused", job_id |-> NoId, sha |-> <<>>, image |-> <<>>, ref |-> <<>>,
     exit_code |-> 0, status |-> "NONE", kill_requested |-> FALSE,
     wd |-> "none", gotKill |-> FALSE, logs |-> "none",
     env |-> <<>>, gpu_index |-> 0, ram |-> DefaultRam, command |-> <<>>,
     nvml |-> FALSE, energy |-> 0, energy_kwh |-> 0,
     duration_mh |-> DefaultDurationMh]

NoObs ==
    [pulled |-> <<>>, ran |-> <<>>, kills |-> 0, telem |-> 0, uploads |-> 0,
     workdir |-> "none", patches |-> <<>>, killed |-> {}, timeouts |-> 0,
     sample |-> NoSample, pattern |-> "none"]

AbsentContainer == [st |-> "absent", code |-> 0, owner |-> 0]

\* JobRunner(manifest, ...) on a manifest with these fields
ManifestRunner(job_id, sha, env, gpu_index, ram) ==
    [UnusedThread EXCEPT !.pc = "start", !.job_id = job_id, !.sha = sha,
                         !.image = ImageAlpine, !.env = env,
                         !.gpu_index = gpu_index, !.ram = ram,
                         !.command = DefaultCommand]

\* JobRunner(manifest, ...) as constructed in run_and_report, from a raw
\* assignment that carries the job id and the digest only
NewRunner(job_id, sha) ==
    ManifestRunner(job_id, sha, DefaultEnv, DefaultGpuIndex, DefaultRam)

InitCommon ==
    /\ running = TRUE
    /\ pollInterval \in PollIntervals
    /\ registered = {}
    /\ hbCounter = 0
    /\ ticks = 0
    /\ jobs = <<>>
    /\ active = <<>>
    /\ iter = [used |-> 0, pos |-> 0, tid |-> 0, snap |-> {}]
    /\ joined = [t \in Threads |-> "no"]
    /\ lastAccept = "none"
    /\ container = [n \in ContainerNames |-> AbsentContainer]
    /\ obs = [t \in Threads |-> NoObs]
    /\ acks = [j \in JobIds |-> 0]
    /\ reqs = {}

\* ProviderAgent constructed, run() about to register the devices
Init ==
    /\ InitCommon
    /\ regLeft = NumGpus
    /\ supPc = "register"
    /\ nThreads = 0
    /\ thr = [t \in Threads |-> UnusedThread]

(* --------------------------- the Supervisor ---------------------------- *)

\* signal handler: ProviderAgent.stop. Only the `while self._running` test reads
\* the flag, so the signal is delivered where the main task is about to test it
Stop ==
    /\ supPc = "loop"
    /\ running
    /\ running' = FALSE
    /\ UNCHANGED <<supPc, pollInterval, regLeft, registered, hbCounter, ticks, jobs,
                   active, iter, joined, lastAccept, nThreads,
                   thr, container, obs, acks, reqs>>

\* the registration POST of one device
RegisterRequest(dev) == [kind |-> "register", headers |-> Headers, dev |-> dev]

\* register_gpus: `for gpu in gpus` goes on to the next device whatever the
\* response (2xx, another status, an exception)
RegLeftAfterAbortOnFailure(resp) == IF resp = "ok" THEN regLeft - 1 ELSE 0

RegLeftAfter(resp) == regLeft - 1

\* register_gpus: one device of the loop
RegisterGpu(resp) ==
    /\ supPc = "register"
    /\ regLeft > 0
    /\ reqs' = reqs \cup {RegisterRequest(regLeft)}
    /\ registered' = IF resp = "ok" THEN registered \cup {regLeft} ELSE registered
    /\ regLeft' = RegLeftAfter(resp)
    /\ UNCHANGED <<running, supPc, pollInterval, hbCounter, ticks, jobs, active, iter,
                   joined, lastAccept, nThreads, thr, container, obs, acks>>

\* run(): `if not gpu_ids: sys.exit(1)`
RegisterDone ==
    /\ supPc = "register"
    /\ regLeft = 0
    /\ supPc' = IF registered = {} THEN "exit1" ELSE "loop"
    /\ UNCHANGED <<running, pollInterval, regLeft, registered, hbCounter, ticks, jobs,
                   active, iter, joined, lastAccept, nThreads,
                   thr, container, obs, acks, reqs>>

\* the ticks of the main loop that are followed: MaxTicks with the poll
\* interval of PollIntervals, MaxCadenceTicks with those of CadenceIntervals
TickBound == IF pollInterval \in PollIntervals THEN MaxTicks ELSE MaxCadenceTicks

\* `while self._running:`; when it ends, `for t in self._active_jobs.values()`
\* creates the dict iterator, which remembers the size of the dict, and takes
\* the first thread from it
LoopCheck ==
    /\ supPc = "loop"
    /\ \/ /\ running
          /\ ticks < TickBound
          /\ supPc' = "poll"
          /\ UNCHANGED iter
       \/ /\ ~running
          /\ iter' = [used |-> Len(active),
                       pos |-> IF active = <<>> THEN 1 ELSE 2,
                       tid |-> IF active = <<>> THEN 0 ELSE active[1].tid,
                       snap |-> {active[i].tid : i \in 1..Len(active)}]
          /\ supPc' = IF active = <<>> THEN "returned" ELSE "join"
    /\ UNCHANGED <<running, pollInterval, regLeft, registered, hbCounter, ticks, jobs,
                   active, joined, lastAccept, nThreads,
                   thr, container, obs, acks, reqs>>

\* poll_jobs: every failure yields the empty list
PollJobs(resp) ==
    /\ supPc = "poll"
    /\ Len(resp) <= MaxThreads - nThreads
    /\ reqs' = reqs \cup {Request("poll", Headers)}
    /\ jobs' = resp
    /\ lastAccept' = "none"
    /\ supPc' = "accept"
    /\ UNCHANGED <<running, pollInterval, regLeft, registered, hbCounter, ticks,
                   active, iter, joined, nThreads,
                   thr, container, obs, acks>>

\* raw.get("id") or raw.get("job_id")
JobIdOf(raw) == IF raw.id # NoId THEN raw.id ELSE raw.job_id

ActiveKeys == {active[i].job_id : i \in 1..Len(active)}

AcceptCheckNoMembership ==
    /\ supPc = "accept"
    /\ jobs # <<>>
    /\ IF JobIdOf(Head(jobs)) = NoId
       THEN /\ jobs' = Tail(jobs)
            /\ lastAccept' = "noid"
            /\ UNCHANGED supPc
       ELSE /\ supPc' = "ack"
            /\ UNCHANGED <<jobs, lastAccept>>
    /\ UNCHANGED <<running, pollInterval, regLeft, registered, hbCounter, ticks,
                   active, iter, joined, nThreads, thr, container, obs, acks, reqs>>

AcceptCheckNoIdEndsLoop ==
    /\ supPc = "accept"
    /\ jobs # <<>>
    /\ IF JobIdOf(Head(jobs)) = NoId
       THEN /\ jobs' = <<>>
            /\ lastAccept' = "noid"
            /\ UNCHANGED supPc
       ELSE IF JobIdOf(Head(jobs)) \in ActiveKeys
       THEN /\ jobs' = Tail(jobs)
            /\ lastAccept' = "dup"
            /\ UNCHANGED supPc
       ELSE /\ supPc' = "ack"
            /\ UNCHANGED <<jobs, lastAccept>>
    /\ UNCHANGED <<running, pollInterval, regLeft, registered, hbCounter, ticks,
                   active, iter, joined, nThreads, thr, container, obs, acks, reqs>>

\* _accept_job: the two early returns
AcceptCheck ==
    /\ supPc = "accept"
    /\ jobs # <<>>
    /\ IF JobIdOf(Head(jobs)) = NoId
       THEN /\ jobs' = Tail(jobs)
            /\ lastAccept' = "noid"
            /\ UNCHANGED supPc
       ELSE IF JobIdOf(Head(jobs)) \in ActiveKeys
       THEN /\ jobs' = Tail(jobs)
            /\ lastAccept' = "dup"
            /\ UNCHANGED supPc
       ELSE /\ supPc' = "ack"
            /\ UNCHANGED <<jobs, lastAccept>>
    /\ UNCHANGED <<running, pollInterval, regLeft, registered, hbCounter, ticks,
                   active, iter, joined, nThreads, thr, container, obs, acks, reqs>>

\* _accept_job: the ACK; only an exception (a timeout or a transport error)
\* abandons the admission, the response's status is not looked at
AcceptAck(outcome) ==
    /\ supPc = "ack"
    /\ acks' = [acks EXCEPT ![JobIdOf(Head(jobs))] = @ + 1]
    /\ reqs' = reqs \cup {Request("accept", Headers)}
    /\ IF outcome \in {"timeout", "exception"}
       THEN /\ jobs' = Tail(jobs)
            /\ lastAccept' = "ackfail"
            /\ supPc' = "accept"
       ELSE /\ supPc' = "spawn"
            /\ lastAccept' = IF outcome = "ok" THEN "acked" ELSE "ack_http_error"
            /\ UNCHANGED jobs
    /\ UNCHANGED <<running, pollInterval, regLeft, registered, hbCounter, ticks,
                   active, iter, joined, nThreads, thr, container, obs>>

\* d[k] = v on an insertion-ordered dict
DictSet(d, k, v) ==
    IF \E i \in 1..Len(d) : d[i].job_id = k
    THEN [i \in 1..Len(d) |-> IF d[i].job_id = k THEN [job_id |-> k, tid |-> v] ELSE d[i]]
    ELSE Append(d, [job_id |-> k, tid |-> v])

\* d.pop(k, None)
DictPop(d, k) == SelectSeq(d, LAMBDA e : e.job_id # k)

\* _accept_job: manifest, thread, insert, start
AcceptSpawn ==
    /\ supPc = "spawn"
    /\ nThreads < MaxThreads
    /\ nThreads' = nThreads + 1
    /\ thr' = [thr EXCEPT ![nThreads + 1] =
                   NewRunner(JobIdOf(Head(jobs)), Head(jobs).sha)]
    /\ active' = DictSet(active, JobIdOf(Head(jobs)), nThreads + 1)
    /\ jobs' = Tail(jobs)
    /\ lastAccept' = "spawned"
    /\ supPc' = "accept"
    /\ UNCHANGED <<running, pollInterval, regLeft, registered, hbCounter, ticks,
                   iter, joined, container, obs, acks, reqs>>

\* run(): the heartbeat counter, _send_heartbeat, and the sleep
Heartbeat ==
    /\ supPc = "accept"
    /\ jobs = <<>>
    /\ IF hbCounter + 1 >= (60 \div pollInterval)
       THEN /\ reqs' = reqs \cup {Request("heartbeat", Headers)}
            /\ hbCounter' = 0
       ELSE /\ hbCounter' = hbCounter + 1
            /\ UNCHANGED reqs
    /\ ticks' = ticks + 1
    /\ supPc' = "loop"
    /\ UNCHANGED <<running, pollInterval, regLeft, registered, jobs, active, iter,
                   joined, lastAccept, nThreads, thr, container, obs, acks>>

\* next() of the dict iterator: the size check comes first
IterNext ==
    /\ supPc = "iter"
    /\ IF Len(active) # iter.used
       THEN supPc' = "raised" /\ UNCHANGED iter
       ELSE IF iter.pos > Len(active)
       THEN supPc' = "returned" /\ UNCHANGED iter
       ELSE /\ iter' = [iter EXCEPT !.pos = @ + 1, !.tid = active[iter.pos].tid]
            /\ supPc' = "join"
    /\ UNCHANGED <<running, pollInterval, regLeft, registered, hbCounter, ticks, jobs,
                   active, joined, lastAccept, nThreads, thr, container, obs, acks, reqs>>

ThreadEnded(t) == thr[t].pc \in {"done", "crashed"}

\* whether t.join(timeout=300) can return now: when the thread has ended, and
\* otherwise when the 300 s have passed
JoinReturnsOnlyWhenEnded(t) == ThreadEnded(t)

JoinReturns(t) == TRUE

\* t.join(timeout=300): the thread ended, or the grace expired
Join ==
    /\ supPc = "join"
    /\ JoinReturns(iter.tid)
    /\ joined' = [joined EXCEPT ![iter.tid] =
                      IF ThreadEnded(iter.tid) THEN "completed" ELSE "expired"]
    /\ supPc' = "iter"
    /\ UNCHANGED <<running, pollInterval, regLeft, registered, hbCounter, ticks, jobs,
                   active, iter, lastAccept, nThreads, thr, container, obs, acks, reqs>>

(* ----------------------------- the Runner ------------------------------- *)

RunnerUnchanged ==
    UNCHANGED <<running, supPc, pollInterval, regLeft, registered, hbCounter, ticks,
                jobs, active, iter, joined, lastAccept, nThreads>>

\* JobRunner._pull_and_verify_image, called first by run(); every RuntimeError
\* (and the pull's TimeoutExpired) leaves run() and ends the calling thread
PullAndVerify(t, pull) ==
    /\ ProcessAlive
    /\ thr[t].pc = "start"
    /\ IF ~DigestWellFormed(thr[t].sha)
       THEN /\ thr' = [thr EXCEPT ![t].pc = "crashed"]
            /\ UNCHANGED obs
       ELSE /\ obs' = [obs EXCEPT ![t].pulled =
                          Append(@, [ref |-> ImageRef(thr[t].image, thr[t].sha),
                                     rc |-> IF pull = "ok" THEN 0 ELSE 1])]
            /\ thr' = IF pull = "ok"
                      THEN [thr EXCEPT ![t].pc = "stage",
                                       ![t].ref = ImageRef(thr[t].image, thr[t].sha)]
                      ELSE [thr EXCEPT ![t].pc = "crashed"]
    /\ RunnerUnchanged
    /\ UNCHANGED <<container, acks, reqs>>

\* where the watchdog is once run() is past watchdog_thread.start(): at the
\* test of its loop
WatchdogNeverLaunched(t) == "none"

WatchdogAtLaunch(t) == "check"

\* run(): the workdir, the collector, and watchdog_thread.start()
Stage(t) ==
    /\ ProcessAlive
    /\ thr[t].pc = "stage"
    /\ obs' = [obs EXCEPT ![t].workdir = "exists"]
    /\ thr' = [thr EXCEPT ![t].pc = "run", ![t].wd = WatchdogAtLaunch(t)]
    /\ RunnerUnchanged
    /\ UNCHANGED <<container, acks, reqs>>

\* the docker run command line thread t's Runner has started, if any: cmd of
\* _run_container on its manifest and the image argument it was given
RanCmd(t) ==
    IF obs[t].ran = <<>> THEN <<>> ELSE DockerRunCmd(thr[t], obs[t].ran[Len(obs[t].ran)])

\* the timeout thread t's Runner gave subprocess.run for docker run, in
\* seconds; -1 when it has not started one
RanTimeout(t) ==
    IF obs[t].ran = <<>> THEN -1 ELSE DurationLimitSec(thr[t].duration_mh)

\* the image argument of the docker run command line
RunImageArgMutableTag(t) == thr[t].image

RunImageArg(t) == thr[t].ref

\* _run_container: subprocess.run(["docker", "run", ...]) is started
RunStart(t, launch) ==
    /\ ProcessAlive
    /\ thr[t].pc = "run"
    /\ IF launch = "oserror"
       THEN /\ thr' = [thr EXCEPT ![t].pc = "stopwd", ![t].exit_code = -1,
                                  ![t].logs = "str(e)"]
            /\ UNCHANGED <<container, obs>>
       ELSE /\ obs' = [obs EXCEPT ![t].ran = Append(@, RunImageArg(t))]
            /\ IF container[ContainerName(thr[t].job_id)].st = "absent"
               THEN /\ container' = [container EXCEPT ![ContainerName(thr[t].job_id)] =
                                         [st |-> "running", code |-> 0, owner |-> t]]
                    /\ thr' = [thr EXCEPT ![t].pc = "wait"]
               ELSE /\ thr' = [thr EXCEPT ![t].pc = "stopwd",
                                          ![t].exit_code = ConflictCode,
                                          ![t].logs = "stdout+stderr"]
                    /\ UNCHANGED container
    /\ RunnerUnchanged
    /\ UNCHANGED <<acks, reqs>>

\* _kill_container: name = f"gp4u-{self.manifest.job_id[:12]}"
KillNameFullJobId(job_id) == <<"g","p","4","u","-">> \o job_id

KillName(job_id) ==
    <<"g","p","4","u","-">> \o SubSeq(job_id, 1, Min(12, Len(job_id)))

\* the engine: docker kill <name>; --rm removes a container nobody waits for
Killed(c, n) ==
    IF n \in DOMAIN c /\ c[n].st = "running"
    THEN [c EXCEPT ![n] = IF thr[@.owner].pc = "wait"
                          THEN [@ EXCEPT !.st = "exited", !.code = KilledCode]
                          ELSE AbsentContainer]
    ELSE c

\* _run_container: subprocess.run returns the exit code of the container, which
\* ended by itself with `code` or had been killed
RunReturn(t, code) ==
    /\ ProcessAlive
    /\ thr[t].pc = "wait"
    /\ container[ContainerName(thr[t].job_id)].owner = t
    /\ thr' = [thr EXCEPT ![t].pc = "stopwd",
                          ![t].logs = "stdout+stderr",
                          ![t].exit_code =
                              IF container[ContainerName(thr[t].job_id)].st = "exited"
                              THEN container[ContainerName(thr[t].job_id)].code
                              ELSE code]
    /\ container' = [container EXCEPT ![ContainerName(thr[t].job_id)] = AbsentContainer]
    /\ RunnerUnchanged
    /\ UNCHANGED <<obs, acks, reqs>>

\* the log body _run_container returns on TimeoutExpired
DurationLimitExceeded == "DURATION_LIMIT_EXCEEDED"

\* _run_container: subprocess.TimeoutExpired, self._kill_container(),
\* return -1, "DURATION_LIMIT_EXCEEDED"
RunTimeout(t) ==
    /\ ProcessAlive
    /\ thr[t].pc = "wait"
    /\ container[ContainerName(thr[t].job_id)].st = "running"
    /\ container[ContainerName(thr[t].job_id)].owner = t
    /\ obs' = [obs EXCEPT ![t].kills = @ + 1, ![t].timeouts = @ + 1,
                          ![t].killed = @ \cup {KillName(thr[t].job_id)}]
    /\ container' = IF KillName(thr[t].job_id) \in DOMAIN container
                    THEN [container EXCEPT ![KillName(thr[t].job_id)] = AbsentContainer]
                    ELSE container
    /\ thr' = [thr EXCEPT ![t].pc = "stopwd", ![t].exit_code = -1,
                          ![t].logs = DurationLimitExceeded]
    /\ RunnerUnchanged
    /\ UNCHANGED <<acks, reqs>>

StatusOfAlwaysComplete(exit_code) == "COMPLETE"

\* status = "COMPLETE" if exit_code == 0 else "FAILED"
StatusOf(exit_code) == IF exit_code = 0 THEN "COMPLETE" ELSE "FAILED"

UploadsNoExitCodeTest(t) == obs[t].uploads + 1

\* `if exit_code == 0: self._upload_output(output_dir)`
Uploads(t) == IF thr[t].exit_code = 0 THEN obs[t].uploads + 1 ELSE obs[t].uploads

\* energy_kwh = round(_energy_joules / 3_600_000, 6), in 1e-6 kWh from mJ:
\* the nearest whole number, and the even one of two equally near
EnergyKwh(mj) ==
    LET q == mj \div 3600
        r == mj % 3600
    IN  IF r > 1800 \/ (r = 1800 /\ q % 2 = 1) THEN q + 1 ELSE q

\* run(): self._kill_requested = True
KillRequestedToggled(t) == ~thr[t].kill_requested

KillRequestedAtTeardown(t) == TRUE

\* `with tempfile.TemporaryDirectory(prefix="gp4u-job-") as workdir`: the state
\* of the tree when the block is left, by return or by exception
WorkdirKeptOnRaise(raised) == IF raised THEN "exists" ELSE "removed"

WorkdirAfterLeave(raised) == "removed"

\* what _upload_output can come to: its walk of output/ succeeds, or rglob or
\* stat raises OSError on what the container left there
UploadOutcomes == {"ok", "raises"}

\* run() from the watchdog teardown on: self._kill_requested = True, the join
\* (5 s, returning whether the watchdog has ended or not), the upload, the
\* result record, and the end of the workdir's `with`; an exception of the
\* upload leaves run() through the `with`, without a result record
StopWatchdog(t, upload) ==
    /\ ProcessAlive
    /\ thr[t].pc = "stopwd"
    /\ upload = "raises" => thr[t].exit_code = 0
    /\ obs' = [obs EXCEPT ![t].uploads = Uploads(t),
                          ![t].workdir = WorkdirAfterLeave(upload = "raises")]
    /\ thr' = IF upload = "raises"
              THEN [thr EXCEPT ![t].pc = "crashed",
                               ![t].kill_requested = KillRequestedAtTeardown(t)]
              ELSE [thr EXCEPT ![t].pc = "returned",
                               ![t].kill_requested = KillRequestedAtTeardown(t),
                               ![t].energy_kwh = EnergyKwh(thr[t].energy),
                               ![t].status = StatusOf(thr[t].exit_code)]
    /\ RunnerUnchanged
    /\ UNCHANGED <<container, acks, reqs>>

\* run_and_report: requests.patch, whose failure is logged
Patch(t) ==
    /\ ProcessAlive
    /\ supPc # "harness"
    /\ thr[t].pc = "returned"
    /\ obs' = [obs EXCEPT ![t].patches = Append(@, thr[t].status)]
    /\ reqs' = reqs \cup {Request("completion", Headers)}
    /\ thr' = [thr EXCEPT ![t].pc = "evict"]
    /\ RunnerUnchanged
    /\ UNCHANGED <<container, acks>>

\* run_and_report: finally: self._active_jobs.pop(job_id, None); the thread
\* ends and its result record is gone
Evict(t) ==
    /\ ProcessAlive
    /\ thr[t].pc = "evict"
    /\ active' = DictPop(active, thr[t].job_id)
    /\ thr' = [thr EXCEPT ![t].pc = "done", ![t].exit_code = 0, ![t].status = "NONE",
                          ![t].logs = "none", ![t].energy_kwh = 0]
    /\ UNCHANGED <<running, supPc, pollInterval, regLeft, registered, hbCounter, ticks,
                   jobs, iter, joined, lastAccept, nThreads,
                   container, obs, acks, reqs>>

(* ---------------------------- the watchdog ----------------------------- *)

\* _watchdog_loop: `while not self._kill_requested`
WdCheck(t) ==
    /\ ProcessAlive
    /\ thr[t].wd = "check"
    /\ \/ thr[t].kill_requested /\ thr' = [thr EXCEPT ![t].wd = "done"]
       \/ /\ ~thr[t].kill_requested
          /\ obs[t].telem < (IF supPc = "harness" THEN MaxWdTicksRunner ELSE MaxWdTicks)
          /\ thr' = [thr EXCEPT ![t].wd = "send"]
    /\ RunnerUnchanged
    /\ UNCHANGED <<container, obs, acks, reqs>>

\* _collect_gpu: self._energy_joules += power * 10, with power = mW / 1000.0
EnergyAfterLastSampleOnly(e, gpu) == IF gpu.ok THEN gpu.mw * 10 ELSE e

EnergyAfter(e, gpu) == IF gpu.ok THEN e + gpu.mw * 10 ELSE e

\* what a tick's collect_and_send can come to: kill_job true or not in the
\* response, _build_payload raising, or the POST timing out, failing, or being
\* answered with what resp.json() or data.get cannot take
TelemetryOutcomes == {"kill", "nokill", "build_raises", "timeout", "error", "unparseable"}

\* _watchdog_loop: collect_and_send(); with kill_job go on to the kill, without
\* it sleep and loop; a failure is in an except clause, of _send or of the loop.
\* The collectors of _build_payload catch their own exceptions, so it can raise
\* only after a GPU sample, in _infer_pattern, on the utilisation pynvml gave
WdSend(t, resp, gpu) ==
    /\ ProcessAlive
    /\ thr[t].wd = "send"
    /\ gpu.ok => thr[t].nvml
    /\ resp = "build_raises" => gpu.ok
    /\ obs' = [obs EXCEPT ![t].telem = @ + 1, ![t].sample = gpu,
                          ![t].pattern =
                              IF resp = "build_raises" THEN @
                              ELSE InferPattern(gpu.util, gpu.outbound, gpu.ips,
                                                gpu.suspicious)]
    /\ reqs' = IF resp = "build_raises" THEN reqs
               ELSE reqs \cup {Request("telemetry", TelemetryHeaders)}
    /\ thr' = [thr EXCEPT ![t].energy = EnergyAfter(@, gpu),
                          ![t].gotKill = @ \/ resp = "kill",
                          ![t].wd = IF resp = "kill" THEN "kill"
                                    ELSE IF resp = "nokill" THEN "check"
                                    ELSE "failed"]
    /\ RunnerUnchanged
    /\ UNCHANGED <<container, acks>>

\* where the watchdog goes from the except clause: the error is logged, _send
\* returns kill_job False, and the loop sleeps and tests its flag again
AfterTelemetryFailureKill(t) == "kill"

AfterTelemetryFailure(t) == "check"

WdFailed(t) ==
    /\ ProcessAlive
    /\ thr[t].wd = "failed"
    /\ thr' = [thr EXCEPT ![t].wd = AfterTelemetryFailure(t)]
    /\ RunnerUnchanged
    /\ UNCHANGED <<container, obs, acks, reqs>>

\* _watchdog_loop, after the kill: self._kill_requested = True
FlagAfterKillUnchanged(t) == thr[t].kill_requested

FlagAfterKill(t) == TRUE

\* _watchdog_loop: self._kill_container(); self._kill_requested = True; return
WdKill(t) ==
    /\ ProcessAlive
    /\ thr[t].wd = "kill"
    /\ obs' = [obs EXCEPT ![t].kills = @ + 1,
                          ![t].killed = @ \cup {KillName(thr[t].job_id)}]
    /\ container' = Killed(container, KillName(thr[t].job_id))
    /\ thr' = [thr EXCEPT ![t].wd = "done", ![t].kill_requested = FlagAfterKill(t)]
    /\ RunnerUnchanged
    /\ UNCHANGED <<acks, reqs>>

\* _infer_pattern called on the collector of thread t's Runner, with the
\* arguments held in obs[t].sample
InferPatternCall(t) ==
    /\ thr[t].pc = "infer"
    /\ obs' = [obs EXCEPT ![t].pattern =
                   InferPattern(obs[t].sample.util, obs[t].sample.outbound,
                                obs[t].sample.ips, obs[t].sample.suspicious)]
    /\ thr' = [thr EXCEPT ![t].pc = "inferred"]
    /\ RunnerUnchanged
    /\ UNCHANGED <<container, acks, reqs>>

(* -------------------------- the specifications ------------------------- *)

RunnerNext ==
    \E t \in Threads :
        \/ \E pull \in {"ok", "fail"} : PullAndVerify(t, pull)
        \/ Stage(t)
        \/ \E launch \in {"ok", "oserror"} : RunStart(t, launch)
        \/ \E code \in ExitCodes : RunReturn(t, code)
        \/ RunTimeout(t)
        \/ \E upload \in UploadOutcomes : StopWatchdog(t, upload)
        \/ WdCheck(t)
        \/ \E resp \in TelemetryOutcomes : \E gpu \in GpuSamples : WdSend(t, resp, gpu)
        \/ WdFailed(t)
        \/ WdKill(t)

ReportNext == \E t \in Threads : Patch(t) \/ Evict(t)

\* the steps of the main task and of its signal handler, the platform answering
\* a poll with one of `responses`
SupervisorSteps(responses) ==
    \/ Stop
    \/ \E resp \in {"ok", "fail", "error"} : RegisterGpu(resp)
    \/ RegisterDone
    \/ LoopCheck
    \/ \E resp \in responses : PollJobs(resp)
    \/ AcceptCheck
    \/ \E outcome \in {"ok", "http_error", "timeout", "exception"} : AcceptAck(outcome)
    \/ AcceptSpawn
    \/ Heartbeat
    \/ IterNext
    \/ Join

SupervisorNext == SupervisorSteps(PollResponses)

Next == SupervisorNext \/ RunnerNext \/ ReportNext

\* the whole agent
Spec == Init /\ [][Next]_vars

\* the poll responses of a platform that has one job for this node, delivered
\* with a well-formed or a malformed digest, once or twice
ShutdownAssignments == {Assignment(J1, NoId, ShaGood), Assignment(J1, NoId, ShaZZ)}

ShutdownPollResponses == SeqsUpTo(ShutdownAssignments, MaxPollLen)

NextShutdown == SupervisorSteps(ShutdownPollResponses) \/ RunnerNext \/ ReportNext

\* the poll responses of a platform that has two jobs for this node whose ids
\* differ only after their 12th character
CollideAssignments == {Assignment(J1, NoId, ShaGood), Assignment(J3, NoId, ShaGood)}

CollidePollResponses == SeqsUpTo(CollideAssignments, MaxPollLen)

NextCollide == SupervisorSteps(CollidePollResponses) \/ RunnerNext \/ ReportNext

\* the whole agent, given these two jobs
SpecCollide == Init /\ [][NextCollide]_vars

\* the steps of the main task, run() of the agent; stop() is the signal handler
MainTask == SupervisorSteps(ShutdownPollResponses) /\ running' = running

\* the agent when every call the main task makes returns (each sleep, each
\* HTTP call, each bounded join); nothing is assumed of the Runners, of their
\* watchdogs, or of a signal arriving
SpecShutdown == Init /\ [][NextShutdown]_vars /\ WF_vars(MainTask)

\* the Runners run() is called on directly: every digest, every env map, every
\* gpu_index and ram_limit_gb
RunnerInputs ==
    {NewRunner(J1, sha) : sha \in ShaInputs}
        \cup {ManifestRunner(J1, ShaGood, env, DefaultGpuIndex, DefaultRam) :
                  env \in EnvInputs}
        \cup {ManifestRunner(J1, ShaGood, DefaultEnv, g, ram) :
                  g \in GpuIndexInputs, ram \in RamInputs}
        \cup {[NewRunner(J1, ShaGood) EXCEPT !.nvml = TRUE]}
        \cup {[NewRunner(J1, ShaGood) EXCEPT !.duration_mh = d] : d \in DurationInputs}

\* one JobRunner whose run() is called directly, on any manifest
InitRunner ==
    /\ InitCommon
    /\ regLeft = NumGpus
    /\ supPc = "harness"
    /\ nThreads = 1
    /\ \E r \in RunnerInputs :
           thr = [t \in Threads |-> IF t = 1 THEN r ELSE UnusedThread]

NextRunner == RunnerNext

SpecRunner == InitRunner /\ [][NextRunner]_vars

\* a collector as run() constructs it, or after some ticks' energy, about to
\* be asked for the pattern of any of PatternInputs
InitPattern ==
    /\ running = TRUE
    /\ pollInterval \in PollIntervals
    /\ registered = {}
    /\ hbCounter = 0
    /\ ticks = 0
    /\ jobs = <<>>
    /\ active = <<>>
    /\ iter = [used |-> 0, pos |-> 0, tid |-> 0, snap |-> {}]
    /\ joined = [t \in Threads |-> "no"]
    /\ lastAccept = "none"
    /\ container = [n \in ContainerNames |-> AbsentContainer]
    /\ acks = [j \in JobIds |-> 0]
    /\ reqs = {}
    /\ regLeft = NumGpus
    /\ supPc = "harness"
    /\ nThreads = 1
    /\ \E e \in {0, 3000000} : \E g \in GpuIndexInputs :
           thr = [t \in Threads |->
                     IF t = 1
                     THEN [NewRunner(J1, ShaGood) EXCEPT !.pc = "infer", !.energy = e,
                                                         !.gpu_index = g]
                     ELSE UnusedThread]
    /\ \E inp \in PatternInputs :
           obs = [t \in Threads |-> IF t = 1 THEN [NoObs EXCEPT !.sample = inp] ELSE NoObs]

NextPattern == \E t \in Threads : InferPatternCall(t)

SpecPattern == InitPattern /\ [][NextPattern]_vars

\* the agent's main task from its start on a host with MaxGpus devices, up to
\* the point where the Runner threads it has started get to run
InitStartup ==
    /\ InitCommon
    /\ regLeft = MaxGpus
    /\ supPc = "register"
    /\ nThreads = 0
    /\ thr = [t \in Threads |-> UnusedThread]

NextStartup == SupervisorNext

SpecStartup == InitStartup /\ [][NextStartup]_vars

\* the agent's main task over MaxCadenceTicks ticks, started with one of the
\* poll intervals of CadenceIntervals
InitCadence ==
    /\ running = TRUE
    /\ pollInterval \in CadenceIntervals
    /\ registered = {}
    /\ hbCounter = 0
    /\ ticks = 0
    /\ jobs = <<>>
    /\ active = <<>>
    /\ iter = [used |-> 0, pos |-> 0, tid |-> 0, snap |-> {}]
    /\ joined = [t \in Threads |-> "no"]
    /\ lastAccept = "none"
    /\ container = [n \in ContainerNames |-> AbsentContainer]
    /\ obs = [t \in Threads |-> NoObs]
    /\ acks = [j \in JobIds |-> 0]
    /\ reqs = {}
    /\ regLeft = NumGpus
    /\ supPc = "register"
    /\ nThreads = 0
    /\ thr = [t \in Threads |-> UnusedThread]

NextCadence == SupervisorNext

SpecCadence == InitCadence /\ [][NextCadence]_vars


(* ------------------------------ the claims ----------------------------- *)

\* run() has been left by thread t's Runner, by return or by exception
RunLeft(t) == thr[t].pc \in {"returned", "evict", "done", "crashed"}

\* the Runner task of t exists: spawned, and not yet ended
RunnerAlive(t) == thr[t].pc \notin {"unused", "done", "crashed"}

\* sha256:[0-9a-f]{64}
MatchesShaRegex(e) ==
    /\ Len(e) = 7 + 64
    /\ SubSeq(e, 1, 7) = <<"s","h","a","2","5","6",":">>
    /\ \A i \in 8..Len(e) : e[i] \in HexChars

\* C1: every admitted job gets exactly one completion PATCH, COMPLETE or FAILED,
\* on every path of its Runner: once the Runner's thread has ended, one PATCH
\* has been sent for it, and never more than one.
C1_ExactlyOnePatch ==
    \A t \in Threads :
        /\ Len(obs[t].patches) <= 1
        /\ \A i \in 1..Len(obs[t].patches) : obs[t].patches[i] \in {"COMPLETE", "FAILED"}
        /\ ThreadEnded(t) => Len(obs[t].patches) = 1

\* C2: docker run is invoked only after the digest passed validation and a
\* docker pull of <image>@sha256:<hex> returned 0, and it is given exactly that
\* pulled reference, never the mutable tag.
C2_RunOnlyVerifiedPinned ==
    \A t \in Threads : \A i \in 1..Len(obs[t].ran) :
        /\ MatchesShaRegex(ExpectedSha(thr[t].sha))
        /\ obs[t].ran[i] = thr[t].image \o <<"@">> \o ExpectedSha(thr[t].sha)
        /\ obs[t].ran[i] # thr[t].image
        /\ \E k \in 1..Len(obs[t].pulled) :
               obs[t].pulled[k].rc = 0 /\ obs[t].pulled[k].ref = obs[t].ran[i]

\* a Runner whose manifest digest needed the lower-casing and the stripping has
\* started its container
C2_Witness ==
    \E t \in Threads :
        /\ thr[t].sha = ShaGoodUpperPadded
        /\ Len(obs[t].ran) = 1
        /\ thr[t].pc = "wait"

\* C3: for a manifest whose digest does not match sha256:<64 hex>, run() returns
\* a result record with status FAILED, and no pull, no run, no workdir, no
\* watchdog and no telemetry POST happens.
C3_MalformedDigestReturnsFailed ==
    \A t \in Threads :
        (RunLeft(t) /\ ~MatchesShaRegex(ExpectedSha(thr[t].sha))) =>
            /\ thr[t].pc = "returned"
            /\ thr[t].status = "FAILED"
            /\ obs[t].pulled = <<>>
            /\ obs[t].ran = <<>>
            /\ obs[t].workdir = "none"
            /\ thr[t].wd = "none"
            /\ obs[t].telem = 0

\* C4: once the watchdog has received kill_job and issued its kill, the job's
\* container is not running, and the Runner's result is FAILED, under every
\* interleaving of the watchdog with the container's launch and exit.
C4_RemoteKillMeansFailed ==
    \A t \in Threads :
        /\ (thr[t].gotKill /\ thr[t].wd = "done") =>
               ~(/\ container[ContainerName(thr[t].job_id)].st = "running"
                 /\ container[ContainerName(thr[t].job_id)].owner = t)
        /\ (thr[t].gotKill /\ thr[t].pc = "returned") => thr[t].status = "FAILED"

\* C5: once a docker kill has been issued for a job, by the watchdog or by the
\* Runner on timeout, the Runner never afterwards attempts the output upload.
C5_NoUploadAfterKill ==
    [][\A t \in Threads : obs[t].kills > 0 => obs'[t].uploads = obs[t].uploads]_vars

\* C6: for each job id at most one Runner task is alive, and while a Runner is
\* alive the active-jobs map holds exactly one entry for its job id, its own.
C6_OneRunnerPerJob ==
    /\ \A j \in JobIds :
           Cardinality({t \in Threads : RunnerAlive(t) /\ thr[t].job_id = j}) <= 1
    /\ \A t \in Threads :
           RunnerAlive(t) =>
               /\ Cardinality({i \in 1..Len(active) : active[i].job_id = thr[t].job_id}) = 1
               /\ \E i \in 1..Len(active) :
                      active[i].job_id = thr[t].job_id /\ active[i].tid = t
    /\ \A i, k \in 1..Len(active) : active[i].job_id = active[k].job_id => i = k

\* two Runners, of two job ids, are alive at once, each with its entry
C6_Witness ==
    /\ \A t \in {1, 2} : RunnerAlive(t)
    /\ Len(active) = 2
    /\ acks[J1] + acks[J2] = 2

\* C7: admitting a job id that is already in the active-jobs map is a no-op:
\* that _accept_job call ends without an ACK, without a Runner and with the map
\* unchanged.
C7_RedeliveryNoOp ==
    [][(/\ supPc = "accept"
        /\ jobs # <<>>
        /\ JobIdOf(Head(jobs)) \in ActiveKeys
        /\ <<supPc, jobs>>' # <<supPc, jobs>>) =>
            /\ acks' = acks
            /\ active' = active
            /\ nThreads' = nThreads
            /\ thr' = thr
            /\ jobs' = Tail(jobs)
            /\ supPc' = "accept"]_vars

\* a re-delivered job id has just been turned away while its Runner is alive
C7_Witness ==
    /\ lastAccept = "dup"
    /\ \E t \in Threads : RunnerAlive(t) /\ acks[thr[t].job_id] = 1

\* C8: run() is left, after stop(), only when every Runner that was in the
\* active-jobs map at the end of the main loop has ended or had its 300 s join
\* expire, also when Runners evict themselves during the join.
C8_ExitOnlyAfterJoins ==
    supPc \in {"returned", "raised"} =>
        \A t \in iter.snap : ThreadEnded(t) \/ joined[t] = "expired"

\* C9: while the Supervisor is inside one of its operations on the active-jobs
\* map (between the membership test and the insert of an admission, or inside
\* the iteration of the shutdown join), no Runner removes an entry from it.
C9_MapAccessSerialized ==
    [][(supPc \in {"ack", "spawn", "iter", "join"}) => (Len(active) <= Len(active'))]_vars

\* C10: every HTTP request sent, of all six kinds, carries Authorization:
\* Bearer <token> and X-Node-Id: <the node id minted at startup>.
C10_AllRequestsAuthenticated ==
    \A r \in reqs :
        /\ "Authorization" \in DOMAIN r.headers
        /\ r.headers["Authorization"] = <<"Bearer", Token>>
        /\ "X-Node-Id" \in DOMAIN r.headers
        /\ r.headers["X-Node-Id"] = <<NodeId>>

\* C11: when docker run exceeds the duration limit (TimeoutExpired), the Runner
\* issues a kill of the container named gp4u-<first 12 chars of job_id>, the
\* run yields exit code -1 with log body DURATION_LIMIT_EXCEEDED, and the result
\* status is FAILED.
C11_TimeoutKillsAndFails ==
    \A t \in Threads :
        obs[t].timeouts > 0 =>
            /\ (<<"g","p","4","u","-">> \o SubSeq(thr[t].job_id, 1, 12)) \in obs[t].killed
            /\ thr[t].pc \in {"stopwd", "returned"} =>
                   thr[t].exit_code = -1 /\ thr[t].logs = "DURATION_LIMIT_EXCEEDED"
            /\ thr[t].pc = "returned" => thr[t].status = "FAILED"

\* a Runner has returned from a run that timed out
C11_Witness ==
    \E t \in Threads :
        obs[t].timeouts = 1 /\ thr[t].pc = "returned" /\ ~thr[t].gotKill

\* the docker run options: the arguments before the first occurrence of the
\* image reference
OptionsOf(cmd, ref) ==
    LET at == {i \in 1..Len(cmd) : cmd[i] = ref}
    IN  IF at = {} THEN cmd
        ELSE SubSeq(cmd, 1, (CHOOSE i \in at : \A k \in at : i <= k) - 1)

\* [A-Za-z0-9_]
WordChars ==
    {"A","B","C","D","E","F","G","H","I","J","K","L","M","N","O","P","Q","R","S",
     "T","U","V","W","X","Y","Z","a","b","c","d","e","f","g","h","i","j","k","l",
     "m","n","o","p","q","r","s","t","u","v","w","x","y","z","0","1","2","3","4",
     "5","6","7","8","9","_"}

\* KEY=VALUE with KEY non-empty and in [A-Za-z0-9_]+, VALUE without NUL, LF, CR
\* and of at most 4096 characters
WellFormedEnvArg(a) ==
    LET eqs == {i \in 1..Len(a) : a[i] = "="}
    IN  /\ eqs # {}
        /\ LET e == CHOOSE i \in eqs : \A k \in eqs : i <= k
           IN  /\ e > 1
               /\ \A i \in 1..(e - 1) : a[i] \in WordChars
               /\ \A i \in (e + 1)..Len(a) : a[i] \notin {"U+0000", "\n", "\r"}
               /\ Len(a) - e <= 4096

\* the key of a KEY=VALUE argument
KeyOfEnvArg(a) ==
    SubSeq(a, 1, (CHOOSE i \in 1..Len(a) : a[i] = "=" /\ \A k \in 1..(i - 1) : a[k] # "=") - 1)

\* C12: every --env KEY=VALUE entry of the docker run command has a non-empty
\* KEY made only of [A-Za-z0-9_], which is a manifest key with every other
\* character removed, and a VALUE with no NUL, LF or CR and at most 4096
\* characters.
C12_EnvEntriesSanitized ==
    \A t \in Threads :
        LET opts == OptionsOf(RanCmd(t), thr[t].ref)
        IN  \A i \in 1..(Len(opts) - 1) :
                opts[i] = <<"-","-","e","n","v">> =>
                    /\ WellFormedEnvArg(opts[i + 1])
                    /\ \E n \in 1..Len(thr[t].env) :
                           KeyOfEnvArg(opts[i + 1]) =
                               SelectSeq(thr[t].env[n].k, LAMBDA c : c \in WordChars)

\* the value of a decimal string, modulo p
RECURSIVE DecimalMod(_, _, _)
DecimalMod(str, p, acc) ==
    IF str = <<>> THEN acc
    ELSE DecimalMod(Tail(str), p,
                    (10 * acc + (CHOOSE d \in 0..9 : DigitChars[d + 1] = Head(str))) % p)

\* n * 2^k modulo p
RECURSIVE TimesPow2Mod(_, _, _)
TimesPow2Mod(n, k, p) == IF k = 0 THEN n % p ELSE TimesPow2Mod((2 * n) % p, k - 1, p)

\* the decimal string str is the whole number of bytes in ram GB: the two agree
\* modulo three primes whose product exceeds every 11-digit number
IsBytesOf(str, ram) ==
    /\ Len(str) \in 1..11
    /\ \A i \in 1..Len(str) : \E d \in 1..10 : DigitChars[d] = str[i]
    /\ Len(str) > 1 => str[1] # "0"
    /\ \A p \in {9973, 9967, 9949} :
           DecimalMod(str, p, 0) =
               IF ram.exp <= 30 THEN TimesPow2Mod(ram.num, 30 - ram.exp, p)
               ELSE (ram.num \div Pow2(ram.exp - 30)) % p

\* the positions of a flag among the options
FlagAt(opts, flag) == {i \in 1..(Len(opts) - 1) : opts[i] = flag}

\* the flag occurs, and every occurrence is followed by this value
FlagHas(opts, flag, val) ==
    /\ FlagAt(opts, flag) # {}
    /\ \A i \in FlagAt(opts, flag) : opts[i + 1] = val

C14_KillFlagMonotonic ==
    [][\A t \in Threads : thr[t].kill_requested => thr'[t].kill_requested]_vars

\* the watchdog set the flag on a remote kill, and run() has since gone through
\* its teardown
C14_Witness ==
    \E t \in Threads :
        thr[t].gotKill /\ thr[t].wd = "done" /\ thr[t].pc = "returned" /\ thr[t].kill_requested

\* C15: over the watchdog ticks of one job the energy accumulator never
\* decreases and is never negative: a tick with a successful GPU sample adds
\* power_watts * 10 joules (in mJ: ten times the reading in mW), a tick whose
\* GPU sample fails leaves it unchanged, and the result's energy_kwh is >= 0.
C15_EnergyMonotonic ==
    [][\A t \in Threads :
          /\ thr[t].energy >= 0
          /\ thr'[t].energy >= thr[t].energy
          /\ obs'[t].telem = obs[t].telem + 1 =>
                 thr'[t].energy = thr[t].energy
                     + (IF obs'[t].sample.ok THEN 10 * obs'[t].sample.mw ELSE 0)
          /\ obs'[t].telem = obs[t].telem => thr'[t].energy = thr[t].energy
          /\ thr'[t].energy_kwh >= 0
          /\ (thr'[t].pc = "returned" /\ thr[t].pc = "stopwd") =>
                 /\ 3600 * thr'[t].energy_kwh <= thr[t].energy + 1800
                 /\ 3600 * thr'[t].energy_kwh >= thr[t].energy - 1800]_vars

\* a Runner returned after two ticks, the first with a larger power reading than
\* the second, and a tick whose GPU sample failed also happened
C15_Witness ==
    \E t \in Threads :
        /\ obs[t].telem = 2
        /\ thr[t].energy = 10 * 300000 + 10 * 150000
        /\ obs[t].sample.ok
        /\ obs[t].sample.mw = 150000
        /\ thr[t].pc = "returned"
        /\ thr[t].energy_kwh = 1250

\* C16: a watchdog tick in which telemetry fails (the sample construction
\* raises, or the POST times out, errors, or gets an unparseable response)
\* issues no docker kill and does not set the kill-requested flag: the watchdog
\* goes on to its next tick, and the Runner's container call is unaffected.
C16_TelemetryFailureNonFatal ==
    [][\A t \in Threads :
          (thr[t].wd = "failed" /\ thr'[t].wd # "failed") =>
              /\ thr'[t].wd = "check"
              /\ obs'[t].kills = obs[t].kills
              /\ obs'[t].killed = obs[t].killed
              /\ thr'[t].kill_requested = thr[t].kill_requested
              /\ thr'[t].pc = thr[t].pc
              /\ thr'[t].exit_code = thr[t].exit_code
              /\ container' = container]_vars

\* two ticks failed before any POST (none was sent), the watchdog went from
\* the first to the second, the container still running and no kill issued
C16_Witness ==
    \E t \in Threads :
        /\ obs[t].telem = 2
        /\ \A r \in reqs : r.kind # "telemetry"
        /\ thr[t].wd \in {"check", "failed"}
        /\ obs[t].kills = 0
        /\ ~thr[t].kill_requested
        /\ thr[t].pc = "wait"
        /\ container[ContainerName(thr[t].job_id)].st = "running"

\* C17: every job inserted into the active-jobs map is removed from it once its
\* Runner has finished, on every outcome of the Runner (also a digest or pull
\* error) and of the PATCH, and after the PATCH attempt. Only the job's own
\* thread removes the entry, so an entry still there when the thread has ended
\* stays for ever.
C17_EvictedOnceRunnerEnded ==
    \A t \in Threads :
        LET held == \E i \in 1..Len(active) : active[i].tid = t
        IN  /\ ThreadEnded(t) => ~held
            /\ (thr[t].pc # "unused" /\ ~held) => Len(obs[t].patches) = 1

\* C19: when the ACK of a job fails (the accept request times out, raises a
\* transport error, or is answered with a non-success HTTP status), the
\* admission is abandoned: _accept_job returns with no entry inserted and no
\* Runner spawned.
C19_AckFailureAbandons ==
    [][/\ (supPc = "ack" /\ supPc' # "ack" /\ lastAccept' = "ackfail") =>
              /\ supPc' = "accept"
              /\ jobs' = Tail(jobs)
              /\ active' = active
              /\ nThreads' = nThreads
       /\ (supPc = "spawn" /\ supPc' # "spawn" /\ lastAccept = "ack_http_error") =>
              /\ nThreads' = nThreads
              /\ \A i \in 1..Len(active') : active'[i].job_id # JobIdOf(Head(jobs))]_vars

\* C20: an assignment with no job id (no `id` and no `job_id`, or empty ones) is
\* turned away with no effect: that _accept_job call sends no request, leaves
\* the ACK counts, the active-jobs map and the threads unchanged, and the loop
\* goes on to the remaining assignments of the poll response.
C20_MissingIdRejected ==
    [][(/\ supPc = "accept"
        /\ jobs # <<>>
        /\ Head(jobs).id = <<>>
        /\ Head(jobs).job_id = <<>>
        /\ <<supPc, jobs>>' # <<supPc, jobs>>) =>
            /\ acks' = acks
            /\ reqs' = reqs
            /\ active' = active
            /\ nThreads' = nThreads
            /\ thr' = thr
            /\ jobs' = Tail(jobs)
            /\ supPc' = "accept"]_vars

\* after an assignment without a job id was turned away, the next assignment of
\* the same poll response has passed its checks and is about to be ACKed
C20_Witness ==
    /\ lastAccept = "noid"
    /\ supPc = "ack"
    /\ acks = [j \in JobIds |-> 0]

\* C18: at startup every discovered device is attempted for registration,
\* whatever became of the earlier ones, and if none ends up registered the
\* process exits with status 1 without entering the main loop: no poll, no ACK,
\* no heartbeat and no Runner.
C18_NoDeviceExitsBeforeLoop ==
    /\ (supPc # "register" \/ regLeft = 0) =>
           {r.dev : r \in {q \in reqs : q.kind = "register"}} = 1..MaxGpus
    /\ (supPc # "register" /\ registered = {}) =>
           /\ supPc = "exit1"
           /\ \A r \in reqs : r.kind = "register"
           /\ \A j \in JobIds : acks[j] = 0
           /\ nThreads = 0
           /\ active = <<>>
           /\ ticks = 0
    /\ supPc = "exit1" => registered = {}

\* all devices were attempted, none was registered, and the process has exited
C18_Witness ==
    /\ supPc = "exit1"
    /\ Cardinality({q \in reqs : q.kind = "register"}) = MaxGpus
    /\ registered = {}

\* C21: on every path by which run() is left after the workdir was created (a
\* return with any exit code, after a duration timeout, a remote kill or an
\* engine error, or an exception of the upload) the workdir and its input/ and
\* output/ subtrees no longer exist.
C21_WorkdirReleased ==
    \A t \in Threads :
        RunLeft(t) /\ obs[t].workdir # "none" => obs[t].workdir = "removed"

\* run() was left by an exception of the upload, the workdir having been made
C21_Witness ==
    \E t \in Threads :
        /\ thr[t].pc = "crashed"
        /\ obs[t].uploads = 1
        /\ obs[t].workdir = "removed"

\* C22: in every result record run() returns, status is COMPLETE if and only
\* if the container's exit code is 0 and FAILED otherwise, and the output
\* upload was attempted if and only if the exit code is 0.
C22_StatusAndUploadFollowExitCode ==
    \A t \in Threads :
        thr[t].pc = "returned" =>
            /\ thr[t].status \in {"COMPLETE", "FAILED"}
            /\ thr[t].status = "COMPLETE" <=> thr[t].exit_code = 0
            /\ obs[t].uploads = 1 <=> thr[t].exit_code = 0
            /\ obs[t].uploads \in {0, 1}

\* a result record of a container that exited with 0: COMPLETE, one upload
C22_Witness ==
    \E t \in Threads :
        /\ thr[t].pc = "returned"
        /\ thr[t].exit_code = 0
        /\ thr[t].status = "COMPLETE"
        /\ obs[t].uploads = 1

\* the main task is inside a tick of its loop: polling, admitting, heartbeat
InTick == supPc \in {"poll", "accept", "ack", "spawn"}

\* run() of the agent has ended, by return or by an exception
RunEnded == supPc \in {"returned", "raised"}

\* C23: after stop() the main loop starts no new tick once it has seen the
\* running flag false, and run() of the agent eventually ends, when each sleep,
\* HTTP call and bounded join returns; it does not wait without end for a
\* Runner that is still blocked in its container call.
C23_StopTerminates == [](~running => (~InTick /\ <>RunEnded))

\* run() has ended after stop() while a Runner it has joined for the 300 s is
\* still waiting for its container
C23_Witness ==
    /\ ~running
    /\ RunEnded
    /\ \E t \in Threads : joined[t] = "expired" /\ thr[t].pc = "wait"

\* the order of the positions of one Runner's thread: spawn, verification,
\* staging with the watchdog launch, the container call, the teardown (flag,
\* join, upload, result), the completion report, the eviction
PhaseEdges ==
    {<<"unused", "start">>, <<"start", "stage">>, <<"start", "crashed">>,
     <<"stage", "run">>, <<"run", "wait">>, <<"run", "stopwd">>,
     <<"wait", "stopwd">>, <<"stopwd", "returned">>, <<"stopwd", "crashed">>,
     <<"returned", "evict">>, <<"evict", "done">>}

\* C24: within one Runner the phases come in the order verification, workdir
\* and staging, watchdog launch, container run, watchdog stop, upload, result
\* and completion report: the pull is the first thing done, the workdir is
\* made after a successful pull, the watchdog is launched before the engine is
\* invoked, the upload comes with the kill-requested flag set after the
\* container call has returned, and the PATCH is sent only after run() returned.
C24_PhaseOrder ==
    [][\A t \in Threads :
          /\ thr'[t].pc # thr[t].pc => <<thr[t].pc, thr'[t].pc>> \in PhaseEdges
          /\ obs'[t].pulled # obs[t].pulled =>
                 thr[t].pc = "start" /\ obs[t].workdir = "none" /\ thr[t].wd = "none"
          /\ obs'[t].workdir # obs[t].workdir /\ obs[t].workdir = "none" =>
                 /\ obs[t].pulled # <<>>
                 /\ obs[t].pulled[Len(obs[t].pulled)].rc = 0
                 /\ obs[t].ran = <<>>
          /\ thr[t].wd = "none" /\ thr'[t].wd # "none" =>
                 obs'[t].workdir = "exists" /\ obs[t].ran = <<>>
          /\ obs'[t].ran # obs[t].ran =>
                 /\ thr[t].wd # "none"
                 /\ obs[t].workdir = "exists"
                 /\ obs[t].uploads = 0
                 /\ obs[t].patches = <<>>
          /\ obs'[t].uploads # obs[t].uploads =>
                 /\ thr[t].pc = "stopwd"
                 /\ thr'[t].kill_requested
                 /\ obs[t].patches = <<>>
          /\ obs'[t].patches # obs[t].patches =>
                 /\ thr[t].pc = "returned"
                 /\ thr[t].kill_requested
                 /\ thr[t].status \in {"COMPLETE", "FAILED"}
                 /\ obs[t].workdir = "removed"
      ]_vars

\* a Runner went through every phase: pull, container run with telemetry sent
\* by its watchdog, upload, completion report, eviction
C24_Witness ==
    \E t \in Threads :
        /\ thr[t].pc = "done"
        /\ obs[t].ran # <<>>
        /\ obs[t].telem > 0
        /\ obs[t].uploads = 1
        /\ obs[t].patches = <<"COMPLETE">>

\* C25: on a watchdog tick whose telemetry response has kill_job truthy, the
\* watchdog goes from the response straight to `docker kill gp4u-<first 12
\* characters of job_id>`, without a sleep or a loop test in between, sets
\* kill-requested with it and returns; having killed, it sends no further
\* telemetry POST and makes no further tick.
C25_KillInSameTick ==
    [][\A t \in Threads :
          /\ thr[t].wd = "send" /\ ~thr[t].gotKill /\ thr'[t].gotKill =>
                 thr'[t].wd = "kill"
          /\ thr[t].wd = "kill" =>
                 /\ obs'[t].telem = obs[t].telem
                 /\ thr'[t].wd \in {"kill", "done"}
                 /\ thr'[t].wd = "done" =>
                        /\ obs'[t].kills = obs[t].kills + 1
                        /\ (<<"g","p","4","u","-">> \o SubSeq(thr[t].job_id, 1, 12))
                               \in obs'[t].killed
                        /\ thr'[t].kill_requested
          /\ thr[t].wd = "done" =>
                 thr'[t].wd = "done" /\ obs'[t].telem = obs[t].telem
      ]_vars

\* the watchdog has killed on a kill_job response and ended, with the flag set,
\* while run() is still in its container call
C25_Witness ==
    \E t \in Threads :
        /\ thr[t].gotKill
        /\ thr[t].wd = "done"
        /\ thr[t].pc = "wait"
        /\ thr[t].kill_requested
        /\ obs[t].kills = 1
        /\ obs[t].killed = {<<"g","p","4","u","-">> \o SubSeq(thr[t].job_id, 1, 12)}

\* C26: for every manifest, the timeout passed to the container engine
\* invocation is ceil(expected_duration_h * 3600 * 1.1) seconds (0.001 h gives
\* 4 s, not 3 s).
C26_TimeoutIsCeil ==
    \A t \in Threads :
        obs[t].ran # <<>> => RanTimeout(t) = CeilOf(thr[t].duration_mh * 396, 100)

\* C27: for every positive integer poll interval p the main loop emits a
\* heartbeat exactly on every ceil(60 / p)-th tick and on no other tick, after
\* the poll of that tick.
C27_HeartbeatEveryCeilTicks ==
    [][ticks' = ticks + 1 =>
          /\ supPc = "accept"
          /\ Request("poll", Headers) \in reqs
          /\ hbCounter' = 0 <=> ticks' % CeilOf(60, pollInterval) = 0
          /\ hbCounter' = 0 => Request("heartbeat", Headers) \in reqs'
      ]_vars

\* C28: for every input (gpu_util, outbound, unique_ips, suspicious)
\* _infer_pattern returns the label of the first matching rule: a non-empty
\* suspicious list gives CRYPTO_MINING; else gpu_util > 85 with outbound <
\* 5,000,000 gives TRAINING; else unique_ips > 30 with gpu_util < 20 gives
\* NETWORK_HEAVY; else gpu_util < 5 gives IDLE; else INFERENCE; whatever the
\* state of the collector it is called on.
C28_FirstMatchingRule ==
    \A t \in Threads :
        thr[t].pc = "inferred" =>
            LET inp == obs[t].sample
                r1 == Len(inp.suspicious) > 0
                r2 == inp.util > 85 /\ inp.outbound < 5000000
                r3 == inp.ips > 30 /\ inp.util < 20
                r4 == inp.util < 5
            IN  /\ r1 => obs[t].pattern = "CRYPTO_MINING"
                /\ ~r1 /\ r2 => obs[t].pattern = "TRAINING"
                /\ ~r1 /\ ~r2 /\ r3 => obs[t].pattern = "NETWORK_HEAVY"
                /\ ~r1 /\ ~r2 /\ ~r3 /\ r4 => obs[t].pattern = "IDLE"
                /\ ~r1 /\ ~r2 /\ ~r3 /\ ~r4 => obs[t].pattern = "INFERENCE"

\* _infer_pattern has answered IDLE at 4 % utilisation with 30 peers and heavy
\* outbound traffic: rules one to three did not match, the fourth did
C28_Witness ==
    \E t \in Threads :
        /\ thr[t].pc = "inferred"
        /\ obs[t].sample.util = 4
        /\ obs[t].sample.ips = 30
        /\ obs[t].sample.outbound = 5000000
        /\ obs[t].sample.suspicious = <<>>
        /\ obs[t].pattern = "IDLE"
        /\ thr[t].energy = 3000000

\* the watchdog task of thread t's Runner exists: started, and not yet returned
WatchdogAlive(t) == thr[t].wd \in {"check", "send", "failed", "kill"}

\* C29: at any instant at most one watchdog task is alive for a given job id
\* (so that the telemetry POSTs of one job are never concurrent and go out in
\* sample order), also when the Runner's 5 s join of its watchdog timed out
\* and the same job id was admitted again.
C29_OneWatchdogPerJob ==
    \A t1, t2 \in Threads :
        /\ t1 # t2
        /\ thr[t1].job_id = thr[t2].job_id
        /\ WatchdogAlive(t1)
        => ~WatchdogAlive(t2)

\* C30: once the completion PATCH of a job has been sent, its Runner's
\* watchdog sends no further telemetry POST and issues no further docker kill,
\* also when the Runner's join of the watchdog timed out.
C30_QuietAfterPatch ==
    [][\A t \in Threads :
          obs[t].patches # <<>> =>
              /\ obs'[t].telem = obs[t].telem
              /\ obs'[t].kills = obs[t].kills
      ]_vars

\* C31: Runners of distinct job ids do not interfere through the container
\* engine, also when the ids share their first 12 characters: a docker kill
\* issued for one job, by its watchdog or by its timeout handler, changes no
\* container but that job's own, and two Runners of distinct job ids that are
\* alive together have not both given docker run the same container name.
C31_NoEngineInterference ==
    [][\A t \in Threads :
          /\ obs'[t].kills > obs[t].kills =>
                 \A n \in ContainerNames :
                     container'[n] # container[n] =>
                         /\ container[n].owner \in Threads
                         /\ thr[container[n].owner].job_id = thr[t].job_id
          /\ \A u \in Threads :
                 /\ thr'[t].job_id # thr'[u].job_id
                 /\ RunnerAlive(t)' /\ RunnerAlive(u)'
                 /\ obs'[t].ran # <<>> /\ obs'[u].ran # <<>>
                 => ContainerName(thr'[t].job_id) # ContainerName(thr'[u].job_id)
      ]_vars


====
